---- MODULE Spec2Model ----
(***************************************************************************)
(* Model of NuvelSimilarityDemo.search_by_keywords (src/similarity_app.py). *)
(*                                                                         *)
(* Strings are sequences of one-character strings, so that str.lower,      *)
(* str.split, the substring test `word in text` and the f-string           *)
(* concatenations are computed character by character as Python does.      *)
(* similarity_score is kept in tenths of a percent (800 is 80.0), the      *)
(* precision the code prints with {:.1f}.                                  *)
(***************************************************************************)
EXTENDS Integers, Sequences, FiniteSets, TLC

VARIABLES df, loaded, keywords, max_results, result, pc, mark

vars == <<df, loaded, keywords, max_results, result, pc, mark>>

(***************************************************************************)
(* Bounds of the model.                                                    *)
(***************************************************************************)
MaxRows == 2        \* rows of the dataset: 0 .. MaxRows
MaxResults == 3     \* largest max_results tried
MaxNegative == 2    \* most negative max_results tried is -MaxNegative

Min(a, b) == IF a <= b THEN a ELSE b
Max(a, b) == IF a >= b THEN a ELSE b

(***************************************************************************)
(* Python string primitives.                                               *)
(***************************************************************************)
LowerChar(ch) ==
    CASE ch = "A" -> "a"
      [] ch = "B" -> "b"
      [] ch = "C" -> "c"
      [] ch = "D" -> "d"
      [] ch = "E" -> "e"
      [] OTHER -> ch

\* str.lower()
lower(s) == [i \in 1..Len(s) |-> LowerChar(s[i])]

IsSpace(ch) == ch = " "

\* str.split(): the maximal runs of non-whitespace characters, in order.
RECURSIVE SplitFrom(_, _, _)
SplitFrom(s, i, cur) ==
    IF i > Len(s)
    THEN IF cur = <<>> THEN <<>> ELSE <<cur>>
    ELSE IF IsSpace(s[i])
         THEN (IF cur = <<>> THEN <<>> ELSE <<cur>>) \o SplitFrom(s, i + 1, <<>>)
         ELSE SplitFrom(s, i + 1, Append(cur, s[i]))

split(s) == SplitFrom(s, 1, <<>>)

\* `word in text` on strings: word is a contiguous substring of text.
In(word, text) ==
    \E i \in 0..(Len(text) - Len(word)) :
        SubSeq(text, i + 1, i + Len(word)) = word

\* f"{a} {b} {c} {d}"
Join4(a, b, c, d) == a \o <<" ">> \o b \o <<" ">> \o c \o <<" ">> \o d

\* SliceTo with a bug: the limit is ignored.
NoSlice(s, k) == s

\* list[:k], Python slice semantics (a negative k counts from the end).
SliceTo(s, k) ==
    IF k >= 0
    THEN SubSeq(s, 1, Min(k, Len(s)))
    ELSE SubSeq(s, 1, Max(0, Len(s) + k))

(***************************************************************************)
(* search_by_keywords                                                      *)
(***************************************************************************)
keywords_lower(kw) == lower(kw)

\* source_text with a bug: the .lower() is forgotten.
source_text_raw(row) ==
    Join4(row.source_name, row.source_title,
          row.source_company, row.source_location)

source_text(row) ==
    lower(Join4(row.source_name, row.source_title,
                row.source_company, row.source_location))

similar_text(row) ==
    lower(Join4(row.similar_name, row.similar_title,
                row.similar_company, row.similar_location))

\* AnyWordIn with the length filter of other variants: words of length <= 2
\* are skipped.
AnyLongWordIn(kwl, text) ==
    LET words == split(kwl)
    IN  \E n \in 1..Len(words) : Len(words[n]) > 2 /\ In(words[n], text)

\* AnyWordIn with a bug: iterates the characters of the query
\* (for word in keywords_lower) instead of its words.
AnyCharIn(kwl, text) ==
    \E n \in 1..Len(kwl) : In(<<kwl[n]>>, text)

\* any(word in text for word in keywords_lower.split())
AnyWordIn(kwl, text) ==
    LET words == split(kwl)
    IN  \E n \in 1..Len(words) : In(words[n], text)

\* The condition of line 64.
RowMatches(row, kwl) ==
    AnyWordIn(kwl, source_text(row)) \/ AnyWordIn(kwl, similar_text(row))

\* similarity_info is the text "<relation> <other name> (<score>% similarity)".
SourceResult(row) ==
    [name |-> row.source_name, title |-> row.source_title,
     company |-> row.source_company, location |-> row.source_location,
     profile_type |-> "Source Profile",
     similarity_info |-> [relation |-> "Connected to",
                          other |-> row.similar_name,
                          pct |-> row.similarity_score]]

SimilarResult(row) ==
    [name |-> row.similar_name, title |-> row.similar_title,
     company |-> row.similar_company, location |-> row.similar_location,
     profile_type |-> "Similar Professional",
     similarity_info |-> [relation |-> "Similar to",
                          other |-> row.source_name,
                          pct |-> row.similarity_score]]

\* The loop of lines 58-82 from row i on.
RECURSIVE MatchingFrom(_, _, _)
MatchingFrom(d, kwl, i) ==
    IF i > Len(d)
    THEN <<>>
    ELSE (IF RowMatches(d[i], kwl)
          THEN <<SourceResult(d[i]), SimilarResult(d[i])>>
          ELSE <<>>) \o MatchingFrom(d, kwl, i + 1)

matching_results(d, kw) == MatchingFrom(d, keywords_lower(kw), 1)

\* key with a bug: the profile type is part of the key.
key_with_type(r) == r.name \o <<"_">> \o r.company \o <<"_", r.profile_type>>

\* key = f"{result['name']}_{result['company']}"
key(r) == r.name \o <<"_">> \o r.company

\* The loop of lines 87-91 from candidate i on.
RECURSIVE UniqueFrom(_, _, _, _)
UniqueFrom(mr, i, seen, unique) ==
    IF i > Len(mr)
    THEN unique
    ELSE IF key(mr[i]) \notin seen
         THEN UniqueFrom(mr, i + 1, seen \cup {key(mr[i])}, Append(unique, mr[i]))
         ELSE UniqueFrom(mr, i + 1, seen, unique)

\* unique_results with a bug: the last occurrence of a key is the one kept.
RECURSIVE UniqueLastFrom(_, _)
UniqueLastFrom(mr, i) ==
    IF i > Len(mr)
    THEN <<>>
    ELSE (IF \E j \in (i + 1)..Len(mr) : key(mr[j]) = key(mr[i])
          THEN <<>>
          ELSE <<mr[i]>>) \o UniqueLastFrom(mr, i + 1)

unique_results_keep_last(mr) == UniqueLastFrom(mr, 1)

unique_results(mr) == UniqueFrom(mr, 1, {}, <<>>)

search_by_keywords(d, kw, k) ==
    IF Len(d) = 0
    THEN <<>>
    ELSE SliceTo(unique_results(matching_results(d, kw)), k)

(***************************************************************************)
(* Inputs.                                                                 *)
(***************************************************************************)
Person(n, t, c, l) == [name |-> n, title |-> t, company |-> c, location |-> l]

\* Two profiles whose name_company keys coincide, and a third that differs
\* from the first by letter case only.
Persons ==
    { Person(<<"a", "_", "b">>, <<"d">>, <<"c">>, <<"e">>),
      Person(<<"a">>, <<"d">>, <<"b", "_", "c">>, <<"e">>),
      Person(<<"A", "_", "b">>, <<"D">>, <<"c">>, <<"e">>) }

Scores == {800, 920}

Row(s, m, sc) ==
    [source_name |-> s.name, source_title |-> s.title,
     source_company |-> s.company, source_location |-> s.location,
     similar_name |-> m.name, similar_title |-> m.title,
     similar_company |-> m.company, similar_location |-> m.location,
     similarity_score |-> sc]

\* A row links two different profiles.
Rows ==
    { Row(p[1], p[2], sc) :
        p \in { pp \in Persons \X Persons : pp[1] # pp[2] }, sc \in Scores }

Datasets == UNION { [1..n -> Rows] : n \in 0..MaxRows }

Queries ==
    { <<>>,
      <<" ">>,
      <<"c">>,
      <<"b", "b">>,
      <<"a", "a", "a">>,
      <<"a", "_", "b">>,
      <<"A", "_", "B">>,
      <<"b", "_", "c">>,
      <<"a", "_", "b", " ", "b", "_", "c">> }

Limits == (0 - MaxNegative)..MaxResults

\* Arguments of the repeated calls of SpecCalls.
CallQueries == { <<"a", "_", "b">>, <<"A", "_", "B">>, <<"c">> }
CallLimits == {-1, 1}

(***************************************************************************)
(* State machine.                                                          *)
(***************************************************************************)
\* __init__: self.df = load_data(csv_file); nothing has been searched yet.
Init ==
    /\ df \in Datasets
    /\ loaded = df
    /\ keywords = <<>>
    /\ max_results = 0
    /\ result = <<>>
    /\ pc = "ready"
    /\ mark = <<>>

\* Search with a bug: the call consumes the first row it reads
\* (self.df = self.df.iloc[1:]) instead of leaving self.df alone.
SearchConsumesRow(q, k) ==
    /\ keywords' = q
    /\ max_results' = k
    /\ result' = search_by_keywords(df, q, k)
    /\ pc' = "done"
    /\ mark' = IF mark # <<>> /\ <<q, k>> # <<mark[1].keywords, mark[1].max_results>>
               THEN <<[mark[1] EXCEPT !.between = TRUE]>>
               ELSE mark
    /\ df' = IF df = <<>> THEN df ELSE Tail(df)
    /\ UNCHANGED loaded

\* One call results = demo.search_by_keywords(q, k).
Search(q, k) ==
    /\ keywords' = q
    /\ max_results' = k
    /\ result' = search_by_keywords(df, q, k)
    /\ pc' = "done"
    /\ mark' = IF mark # <<>> /\ <<q, k>> # <<mark[1].keywords, mark[1].max_results>>
               THEN <<[mark[1] EXCEPT !.between = TRUE]>>
               ELSE mark
    /\ UNCHANGED <<df, loaded>>

SearchOnce ==
    /\ pc = "ready"
    /\ \E q \in Queries, k \in Limits : Search(q, k)

Next == SearchOnce

Spec == Init /\ [][Next]_vars

\* Any number of calls. Remember notes the last call and what it returned;
\* mark[1].between then tells whether a call with other arguments followed.
Call == \E q \in CallQueries, k \in CallLimits : Search(q, k)

Remember ==
    /\ pc = "done"
    /\ mark' = <<[keywords |-> keywords, max_results |-> max_results,
                 result |-> result, between |-> FALSE]>>
    /\ UNCHANGED <<df, loaded, keywords, max_results, result, pc>>

NextCalls == Call \/ Remember

SpecCalls == Init /\ [][NextCalls]_vars

(***************************************************************************)
(* Vocabulary of the properties.                                           *)
(***************************************************************************)
Done == pc = "done"

\* The whitespace-separated tokens of a query, lowercased.
Tokens(kw) ==
    LET words == split(lower(kw))
    IN  { words[n] : n \in 1..Len(words) }

\* The lowercased source-side and similar-side text of a row contains w.
RowContains(row, w) ==
    \/ In(w, lower(Join4(row.source_name, row.source_title,
                         row.source_company, row.source_location)))
    \/ In(w, lower(Join4(row.similar_name, row.similar_title,
                         row.similar_company, row.similar_location)))

RowHasToken(row, kw) ==
    LET tokens == Tokens(kw)
    IN  \E w \in tokens : RowContains(row, w)

\* The candidates of the current call, before deduplication.
Candidates == matching_results(df, keywords)

Pair(r) == <<r.name, r.company>>

\* Number of distinct dedup keys among the candidates.
DistinctKeys ==
    LET c == Candidates
    IN  Cardinality({ key(c[i]) : i \in 1..Len(c) })

(***************************************************************************)
(* C1                                                                      *)
(***************************************************************************)
\* C1 as stated: whatever max_results is, zero and negative values
\* included, the returned list has at most max_results entries.
C1_LengthAtMostMaxResults == Done => Len(result) <= max_results

\* C1 amended: for max_results >= 0 the returned list has at most
\* max_results entries; for max_results < 0 it has the deduplicated
\* candidates less the last |max_results| of them, so its length is
\* max(0, n + max_results) with n the number of deduplicated candidates.
C1_LengthBound ==
    Done =>
        /\ max_results >= 0 => Len(result) <= max_results
        /\ max_results < 0 => Len(result) = Max(0, DistinctKeys + max_results)

\* A call whose limit cuts the deduplicated candidates short.
C1_Witness ==
    /\ Done
    /\ max_results >= 1
    /\ DistinctKeys > max_results
    /\ Len(result) = max_results

(***************************************************************************)
(* C2                                                                      *)
(***************************************************************************)
\* C2: no two entries of the returned list have the same (name, company)
\* pair.
C2_NoDuplicatePair ==
    Done =>
        \A i, j \in 1..Len(result) :
            i # j => Pair(result[i]) # Pair(result[j])

\* Two entries are returned although some profile occurs twice among the
\* candidates.
C2_Witness ==
    /\ Done
    /\ Len(result) >= 2
    /\ LET c == Candidates
       IN  \E i, j \in 1..Len(c) : i # j /\ Pair(c[i]) = Pair(c[j])

(***************************************************************************)
(* C3                                                                      *)
(***************************************************************************)
\* C3: whenever max_results <= 0 the returned list is empty.
C3_NonPositiveLimitGivesEmpty == Done /\ max_results <= 0 => result = <<>>

(***************************************************************************)
(* C4                                                                      *)
(***************************************************************************)
AllTokensShort(kw) == \A w \in Tokens(kw) : Len(w) <= 2

OriginRow(r) ==
    df[CHOOSE i \in 1..Len(df) :
          r \in {SourceResult(df[i]), SimilarResult(df[i])}]

\* Number of distinct query tokens found in the row's text.
MatchScore(row, kw) ==
    Cardinality({ w \in Tokens(kw) : RowContains(row, w) })

\* C5: the returned list is ordered by match score descending, then by
\* similarity_score descending: for positions i < j the entry at i has a
\* higher match score, or an equal one and a similarity_score >= that of j.
C5_OrderedByScoreThenSimilarity ==
    Done =>
        \A i, j \in 1..Len(result) :
            i < j =>
                LET si == MatchScore(OriginRow(result[i]), keywords)
                    sj == MatchScore(OriginRow(result[j]), keywords)
                IN  \/ si > sj
                    \/ /\ si = sj
                       /\ OriginRow(result[i]).similarity_score
                             >= OriginRow(result[j]).similarity_score

(***************************************************************************)
(* C6                                                                      *)
(***************************************************************************)
\* C6: if no row contains a query token in its lowercased source-side or
\* similar-side text (an empty dataset included) the returned list is
\* empty, and every returned entry is the source or similar side of a row
\* that contains at least one query token.
C6_NoMatchGivesEmpty ==
    Done =>
        /\ (\A i \in 1..Len(df) : ~RowHasToken(df[i], keywords)) => result = <<>>
        /\ \A n \in 1..Len(result) :
              \E i \in 1..Len(df) :
                  /\ RowHasToken(df[i], keywords)
                  /\ result[n] \in {SourceResult(df[i]), SimilarResult(df[i])}

\* A query with a token, a dataset of which one row contains it and another
\* does not, and a limit that lets results through.
C6_Witness ==
    /\ Done
    /\ max_results >= 1
    /\ \E i, j \in 1..Len(df) :
          RowHasToken(df[i], keywords) /\ ~RowHasToken(df[j], keywords)
    /\ result # <<>>

(***************************************************************************)
(* C7                                                                      *)
(***************************************************************************)
\* C7: every returned entry carries a match_score equal to the number of
\* distinct query tokens found in its row's lowercased text, together with
\* the row's similarity_score.
C7_CarriesMatchScore ==
    Done =>
        \A n \in 1..Len(result) :
            /\ "match_score" \in DOMAIN result[n]
            /\ result[n].match_score = MatchScore(OriginRow(result[n]), keywords)
            /\ result[n].similarity_info.pct = OriginRow(result[n]).similarity_score

UpperChar(ch) ==
    CASE ch = "a" -> "A"
      [] ch = "b" -> "B"
      [] ch = "c" -> "C"
      [] ch = "d" -> "D"
      [] ch = "e" -> "E"
      [] OTHER -> ch

upper(s) == [i \in 1..Len(s) |-> UpperChar(s[i])]

\* A row with the letter case of every text field changed by f.
RecaseRow(row, f(_)) ==
    [source_name |-> f(row.source_name), source_title |-> f(row.source_title),
     source_company |-> f(row.source_company),
     source_location |-> f(row.source_location),
     similar_name |-> f(row.similar_name), similar_title |-> f(row.similar_title),
     similar_company |-> f(row.similar_company),
     similar_location |-> f(row.similar_location),
     similarity_score |-> row.similarity_score]

LowerDf(d) == [i \in 1..Len(d) |-> RecaseRow(d[i], lower)]
UpperDf(d) == [i \in 1..Len(d) |-> RecaseRow(d[i], upper)]

\* The (name, company) pairs of a result list, letter case set aside.
LowerPairs(res) ==
    [n \in 1..Len(res) |-> <<lower(res[n].name), lower(res[n].company)>>]

\* The rows of d that the search takes as matching.
MatchedRows(d, kw) ==
    { i \in 1..Len(d) : RowMatches(d[i], keywords_lower(kw)) }

\* No two candidates of d with different (name, company) pairs have the
\* same dedup key.
KeysFaithful(d, kw) ==
    LET c == matching_results(d, kw)
    IN  \A i, j \in 1..Len(c) : key(c[i]) = key(c[j]) => Pair(c[i]) = Pair(c[j])

\* C9 as stated: changing the letter case of the query or of the records'
\* text fields changes neither which records match nor the order and
\* (name, company) keys of the returned entries. It is stated here for the
\* datasets on which the dedup key tells all (name, company) pairs apart,
\* before and after the change of case, and for max_results >= 0.
C9_CaseChangesNothing ==
    /\ Done
    /\ max_results >= 0
    /\ KeysFaithful(df, keywords)
    /\ KeysFaithful(LowerDf(df), keywords)
    => /\ LowerPairs(search_by_keywords(df, lower(keywords), max_results))
             = LowerPairs(result)
       /\ LowerPairs(search_by_keywords(LowerDf(df), keywords, max_results))
             = LowerPairs(result)

\* C9 amended: matching is case-insensitive. Changing the letter case of
\* characters of the query does not change the returned list, and changing
\* the letter case of the records' text fields does not change which
\* records match; deduplication compares name and company with their
\* letter case, so the returned entries can change with the records' case.
C9_MatchingIgnoresCase ==
    Done =>
        /\ search_by_keywords(df, lower(keywords), max_results) = result
        /\ search_by_keywords(df, upper(keywords), max_results) = result
        /\ MatchedRows(LowerDf(df), keywords) = MatchedRows(df, keywords)
        /\ MatchedRows(UpperDf(df), keywords) = MatchedRows(df, keywords)

\* An upper-case query finds a row whose text has upper-case letters.
C9_Witness ==
    /\ Done
    /\ keywords # lower(keywords)
    /\ \E i \in MatchedRows(df, keywords) : LowerDf(df)[i] # df[i]
    /\ result # <<>>

(***************************************************************************)
(* C10                                                                     *)
(***************************************************************************)
\* The candidate positions that no earlier candidate with the same dedup
\* key precedes.
FirstPositions(c) ==
    { i \in 1..Len(c) : \A j \in 1..(i - 1) : key(c[j]) # key(c[i]) }

\* The entries of c at the positions in S, in the order of c.
RECURSIVE Restrict(_, _, _)
Restrict(c, S, i) ==
    IF i > Len(c)
    THEN <<>>
    ELSE (IF i \in S THEN <<c[i]>> ELSE <<>>) \o Restrict(c, S, i + 1)

Take(s, n) == SubSeq(s, 1, Min(n, Len(s)))

\* C10: deduplication keeps the first occurrence. With max_results >= 0
\* the returned list is the first max_results entries of the candidates
\* (rows in dataset order, source side before similar side) that no
\* earlier candidate with the same key precedes, in candidate order; each
\* returned entry is the earliest candidate with its (name, company) pair;
\* and the list for max_results is a prefix of the list for max_results + 1.
C10_KeepsFirstOccurrence ==
    Done /\ max_results >= 0 =>
        LET c == Candidates
            more == search_by_keywords(df, keywords, max_results + 1)
        IN  /\ result = Take(Restrict(c, FirstPositions(c), 1), max_results)
            /\ \A n \in 1..Len(result) :
                  \E i \in 1..Len(c) :
                      /\ c[i] = result[n]
                      /\ \A j \in 1..(i - 1) : Pair(c[j]) # Pair(result[n])
            /\ result = Take(more, Len(result))

\* A profile occurs twice among the candidates, with different entries,
\* and the limit cuts the deduplicated list short.
C10_Witness ==
    /\ Done
    /\ max_results >= 1
    /\ LET c == Candidates
       IN  /\ \E i, j \in 1..Len(c) :
                 /\ i < j
                 /\ Pair(c[i]) = Pair(c[j])
                 /\ c[i] # c[j]
                 /\ result[1] = c[i]
           /\ Cardinality(FirstPositions(c)) > max_results
    /\ Len(result) = max_results

(***************************************************************************)
(* C11                                                                     *)
(***************************************************************************)
\* C11: deduplication never merges distinct identities. With max_results at
\* least the number of candidates, every (name, company) pair among the
\* candidates of the matching rows is the pair of some returned entry, also
\* when a name or a company contains the "_" that builds the dedup key.
C11_DistinctPairsAllReturned ==
    Done =>
        LET c == Candidates
        IN  max_results >= Len(c) =>
                \A i \in 1..Len(c) :
                    \E n \in 1..Len(result) : Pair(result[n]) = Pair(c[i])

====
